---- MODULE Spec2Model ----
(***************************************************************************)
(* Model of openguessersetmaker.py: the country-name validation, the       *)
(* area-weighted point-in-polygon rejection sampler, the parallel map of   *)
(* sampling tasks over a worker pool, and main's reporting.                *)
(*                                                                         *)
(* Coordinates are integers on a fine grid: one unit is 1/Scale of the     *)
(* fourth decimal place that generate_point_for_country rounds to.         *)
(* Polygons are convex rings stored counter-clockwise; areas are counted   *)
(* in half grid cells so that they stay integers (random.choices only      *)
(* uses the ratios of the weights).                                        *)
(*                                                                         *)
(* Two specifications share the definitions:                               *)
(*   Spec         one run of main(): generate_coordinates and the report;  *)
(*   SamplerSpec  one call of get_random_point_in_polygon, step by step,   *)
(*                with strong fairness on the accepting draw.              *)
(***************************************************************************)
EXTENDS Integers, Sequences, FiniteSets

\* ------------------------------------------------------------------ bounds
\* Grid units per rounding step of round(x, 4).
Scale == 3
\* Largest num_points tried (the smallest is -1).
MaxPoints == 2
\* Worker processes of the pool.
NumWorkers == 2
\* Largest number of names on the command line.
MaxInput == 2

\* ---------------------------------------------------------------- geometry
Poly(ring) == [type |-> "Polygon", ring |-> ring]
Multi(geoms) == [type |-> "MultiPolygon", geoms |-> geoms]

\* A five-cornered country, one whose interior holds (3,3).
Pent == Poly(<< <<0, 0>>, <<5, 0>>, <<5, 3>>, <<3, 5>>, <<0, 5>> >>)
IslandA == Poly(<< <<0, 0>>, <<2, 0>>, <<2, 2>>, <<0, 2>> >>)
IslandB == Poly(<< <<3, 0>>, <<8, 0>>, <<3, 5>> >>)
\* Degenerate rings: three collinear corners, area zero.
Sliver == Poly(<< <<3, 3>>, <<5, 3>>, <<4, 3>> >>)
Sliver2 == Poly(<< <<1, 1>>, <<1, 3>>, <<1, 2>> >>)
Archipelago == Multi(<< IslandA, Sliver, IslandB >>)
Shoals == Multi(<< Sliver, Sliver2 >>)
\* A geometry that is neither Polygon nor MultiPolygon.
PointGeom == [type |-> "Point"]

Geometries == {Pent, IslandA, IslandB, Sliver, Archipelago, Shoals, PointGeom,
               Multi(<< Sliver, Pent >>), Multi(<< IslandB, IslandA >>)}

RECURSIVE Shoelace(_, _)
Shoelace(ring, i) ==
    IF i > Len(ring) THEN 0
    ELSE LET a == ring[i]
             b == ring[IF i = Len(ring) THEN 1 ELSE i + 1]
         IN a[1] * b[2] - b[1] * a[2] + Shoelace(ring, i + 1)

\* poly.area, in half grid cells.
Area(poly) ==
    LET s == Shoelace(poly.ring, 1) IN IF s < 0 THEN -s ELSE s

Cross(a, b, p) == (b[1] - a[1]) * (p[2] - a[2]) - (b[2] - a[2]) * (p[1] - a[1])

\* geometry.contains(pnt): the point is in the interior (the boundary is not).
Contains(poly, p) ==
    \A i \in 1..Len(poly.ring) :
        Cross(poly.ring[i], poly.ring[IF i = Len(poly.ring) THEN 1 ELSE i + 1], p) > 0

SetMin(S) == CHOOSE m \in S : \A x \in S : m <= x
SetMax(S) == CHOOSE m \in S : \A x \in S : m >= x

\* geometry.bounds
Bounds(poly) ==
    LET xs == {poly.ring[i][1] : i \in 1..Len(poly.ring)}
        ys == {poly.ring[i][2] : i \in 1..Len(poly.ring)}
    IN [minx |-> SetMin(xs), miny |-> SetMin(ys), maxx |-> SetMax(xs), maxy |-> SetMax(ys)]

\* The values of Point(random.uniform(minx, maxx), random.uniform(miny, maxy)).
Candidates(poly) ==
    LET b == Bounds(poly) IN (b.minx..b.maxx) \X (b.miny..b.maxy)

\* The exit test of the rejection loop.
\* Variant: the first candidate is returned untested.
LoopExitAnyAs(poly, p) == TRUE
LoopExit(poly, p) == Contains(poly, p)

\* areas = [poly.area for poly in geometry.geoms]
Areas(geometry) == [i \in 1..Len(geometry.geoms) |-> Area(geometry.geoms[i])]

RECURSIVE Accumulate(_, _)
Accumulate(weights, i) == IF i = 0 THEN 0 ELSE weights[i] + Accumulate(weights, i - 1)

Total(weights) == Accumulate(weights, Len(weights))

\* bisect(cum_weights, x, 0, hi) of random.choices, hi = n - 1, as a 1-based
\* index: the number of cumulative weights <= x among the first n - 1, plus 1.
Bisect(weights, x) ==
    1 + Cardinality({i \in 1..(Len(weights) - 1) : Accumulate(weights, i) <= x})

\* Variant: the weights are ignored.
ChoicesUniformAs(weights, x) == 1 + (x % Len(weights))
\* random.choices(population, weights, k=1)[0] for the draw x = random() * total,
\* discretised to 0..total-1.
ChoicesIndex(weights, x) == Bisect(weights, x)

\* random.choices raises: no part (IndexError), or a total weight of zero
\* (ValueError, Python 3.9 and later).
ChoicesRaises(weights) == Len(weights) = 0 \/ Total(weights) <= 0

\* The parts random.choices can pick.
Selectable(geometry) ==
    IF ChoicesRaises(Areas(geometry)) THEN {}
    ELSE {ChoicesIndex(Areas(geometry), x) : x \in 0..(Total(Areas(geometry)) - 1)}

\* The points the rejection loop of a Polygon can return.
PolygonReturns(poly) == {p \in Candidates(poly) : LoopExit(poly, p)}

\* get_random_point_in_polygon as a whole: what it can return, whether it
\* raises.  A Polygon with no accepted candidate does neither: it loops.
SamplerReturns(geometry) ==
    IF geometry.type = "MultiPolygon"
    THEN UNION {PolygonReturns(geometry.geoms[i]) : i \in Selectable(geometry)}
    ELSE IF geometry.type = "Polygon" THEN PolygonReturns(geometry)
    ELSE {}

SamplerRaises(geometry) ==
    IF geometry.type = "MultiPolygon" THEN ChoicesRaises(Areas(geometry))
    ELSE geometry.type # "Polygon"

\* round(v, 4): to the nearest rounding step, ties to the even one.
Round(v) ==
    LET q == v \div Scale
        r == v % Scale
    IN IF 2 * r < Scale THEN q * Scale
       ELSE IF 2 * r > Scale THEN (q + 1) * Scale
       ELSE IF q % 2 = 0 THEN q * Scale ELSE (q + 1) * Scale

None == [none |-> TRUE]

OsmLink(lat, lon) == << "https://www.openstreetmap.org/#map=10", lat, lon >>

\* The value generate_point_for_country returns for the sampled point.
PointResult(country_name, point) ==
    LET lat == Round(point[2])
        lon == Round(point[1])
    IN [coords |-> << lat, lon >>, link |-> OsmLink(lat, lon), country |-> country_name]

\* generate_point_for_country: every value the call can return.
generate_point_for_country(country_data) ==
    IF SamplerRaises(country_data.geometry) THEN {None}
    ELSE {PointResult(country_data.NAME, p) : p \in SamplerReturns(country_data.geometry)}

\* ------------------------------------------------------------------ inputs
Names == {"Chad", "Fiji", "Nauru", "Oz", "Atlantis"}

\* The contents of world.txt: missing (load_countries_from_file returns the
\* empty frozenset), the full list, a shorter list.
AllowLists == { {}, {"Chad", "Fiji", "Nauru", "Oz"}, {"Chad", "Oz"} }

Row(name, geometry) == [NAME |-> name, geometry |-> geometry]
World1 == << Row("Chad", Pent), Row("Fiji", Archipelago), Row("Nauru", PointGeom) >>
World2 == << Row("Chad", Pent), Row("Fiji", Shoals), Row("Nauru", Sliver) >>
\* The shapefile: unreadable, or one of two datasets.
Datasets == { [ok |-> FALSE, rows |-> << >>],
              [ok |-> TRUE, rows |-> World1],
              [ok |-> TRUE, rows |-> World2] }

OutputNone == "<None>"
Outputs == {OutputNone, "", "out.json"}

\* The names given along with --lucky (which ignores them).
LuckyInputs == { {}, {"Chad"} }

Pending == [pending |-> TRUE]
NoReturn == [returned |-> FALSE]

VARIABLES
    all_countries,      \* the allow-list loaded at import
    dataset,            \* what the shapefile holds
    args,               \* main's arguments input, num_points, lucky
    show_links,         \* args.show_links, as main's report reads it
    output,             \* args.output, as main's report reads it
    pc,                 \* where main is
    locations,          \* generate_coordinates' locations
    valid_locations,    \* generate_coordinates' valid_locations
    invalid_locations,  \* generate_coordinates' invalid_locations
    worldLoaded,        \* lazy_load_world_dataset has been called
    tasks,              \* the task list handed to pool.imap
    started,            \* tasks 1..started have been taken by a worker
    produced,           \* task index -> the value its call returned, or Pending
    yielded,            \* task indexes the imap iterator has yielded
    completed,          \* task indexes in the order their calls returned
    results,            \* the list built from the iterator
    ret,                \* the tuple generate_coordinates returned
    stdout,             \* the JSON main printed
    file,               \* the output file
    stderr,             \* links and country lists main printed
    sGeom, sPc, sPoly, sChosen, sPnt   \* one sampler call (SamplerSpec)

pipeVars == << all_countries, dataset, args, show_links, output, pc, locations, valid_locations,
               invalid_locations, worldLoaded, tasks, started, produced, yielded,
               completed, results, ret, stdout, file, stderr >>
samplerVars == << sGeom, sPc, sPoly, sChosen, sPnt >>
vars == << pipeVars, samplerVars >>

NoFile == [state |-> "absent", data |-> << >>]
NoStdout == [printed |-> FALSE, data |-> << >>]
NoStderr == [links_printed |-> FALSE, links |-> << >>,
             valid_printed |-> FALSE, valid |-> {},
             invalid_printed |-> FALSE, invalid |-> {},
             save_error |-> FALSE, no_coordinates |-> FALSE]

SamplerIdle ==
    /\ sGeom = PointGeom
    /\ sPc = "idle"
    /\ sPoly = None
    /\ sChosen = 0
    /\ sPnt = << >>

Init ==
    /\ all_countries \in AllowLists
    /\ dataset \in Datasets
    /\ args \in [input : {S \in SUBSET Names : Cardinality(S) <= MaxInput},
                 num_points : -1..MaxPoints,
                 lucky : BOOLEAN]
    /\ args.lucky => args.input \in LuckyInputs
    /\ show_links = FALSE
    /\ output = OutputNone
    /\ pc = "start"
    /\ locations = {}
    /\ valid_locations = {}
    /\ invalid_locations = {}
    /\ worldLoaded = FALSE
    /\ tasks = << >>
    /\ started = 0
    /\ produced = << >>
    /\ yielded = {}
    /\ completed = << >>
    /\ results = << >>
    /\ ret = NoReturn
    /\ stdout = NoStdout
    /\ file = NoFile
    /\ stderr = NoStderr
    /\ SamplerIdle

Return(coordinates, osm_links, valid, invalid) ==
    [returned |-> TRUE, coordinates |-> coordinates, osm_links |-> osm_links,
     valid_locations |-> valid, invalid_locations |-> invalid]

\* ------------------------------------------------- generate_coordinates
\* Lines 68-69: lucky mode replaces locations by one name of the allow-list;
\* random.choice raises IndexError on an empty list, which nothing catches.
LuckyChoices(allow) == {{c} : c \in allow}

ChooseLocations ==
    /\ pc = "start"
    /\ IF args.lucky
       THEN IF all_countries = {}
            THEN /\ pc' = "crashed"
                 /\ UNCHANGED locations
            ELSE /\ locations' \in LuckyChoices(all_countries)
                 /\ pc' = "validate"
       ELSE /\ locations' = args.input
            /\ pc' = "validate"
    /\ UNCHANGED << all_countries, dataset, args, show_links, output, valid_locations, invalid_locations,
                    worldLoaded, tasks, started, produced, yielded, completed, results, ret,
                    stdout, file, stderr, samplerVars >>

\* Variant: the allow-list is not consulted.
ValidAllAs(input_countries, allow) ==
    [valid |-> input_countries, invalid |-> {}]
filter_and_validate_countries(input_countries, allow) ==
    LET valid_countries == {country \in input_countries : country \in allow}
    IN [valid |-> valid_countries, invalid |-> input_countries \ valid_countries]

\* Line 73: if not valid_locations.
\* Variant: no early return.
NoValidNeverAs(valid) == FALSE
NoValid(valid) == valid = {}

\* Lines 71-75.
Validate ==
    /\ pc = "validate"
    /\ LET v == filter_and_validate_countries(locations, all_countries)
       IN /\ valid_locations' = v.valid
          /\ invalid_locations' = v.invalid
          /\ IF NoValid(v.valid)
             THEN /\ ret' = Return(<< >>, << >>, v.valid, v.invalid)
                  /\ pc' = "returned"
             ELSE /\ ret' = ret
                  /\ pc' = "load"
    /\ UNCHANGED << all_countries, dataset, args, show_links, output, locations, worldLoaded, tasks,
                    started, produced, yielded, completed, results, stdout, file, stderr,
                    samplerVars >>

\* countries = world[world['NAME'].isin(valid_locations)], zipped to pairs.
country_geometries(rows, valid) ==
    LET Keep(row) == row.NAME \in valid IN SelectSeq(rows, Keep)

\* random.choices(country_geometries, k=num_points): k <= 0 gives [].
TaskLists(cg, k) ==
    LET n == IF k > 0 THEN k ELSE 0
    IN [1..n -> {cg[i] : i \in 1..Len(cg)}]

\* Lines 77-90: load the dataset (sys.exit(1) when it cannot be read), select
\* the countries, return early when none matches, else submit the tasks.
LoadAndSubmit ==
    /\ pc = "load"
    /\ worldLoaded' = TRUE
    /\ IF ~dataset.ok
       THEN /\ pc' = "exited"
            /\ UNCHANGED << tasks, produced, ret >>
       ELSE LET cg == country_geometries(dataset.rows, valid_locations)
            IN IF Len(cg) = 0
               THEN /\ ret' = Return(<< >>, << >>, valid_locations, invalid_locations)
                    /\ pc' = "returned"
                    /\ UNCHANGED << tasks, produced >>
               ELSE /\ tasks' \in TaskLists(cg, args.num_points)
                    /\ produced' = [i \in DOMAIN tasks' |-> Pending]
                    /\ pc' = "pool"
                    /\ ret' = ret
    /\ UNCHANGED << all_countries, dataset, args, show_links, output, locations, valid_locations,
                    invalid_locations, started, yielded, completed, results, stdout, file,
                    stderr, samplerVars >>

Running == {i \in 1..started : produced[i] = Pending}

\* A free worker takes the next task of the queue.
WorkerTake ==
    /\ pc = "pool"
    /\ started < Len(tasks)
    /\ Cardinality(Running) < NumWorkers
    /\ started' = started + 1
    /\ UNCHANGED << all_countries, dataset, args, show_links, output, pc, locations, valid_locations,
                    invalid_locations, worldLoaded, tasks, produced, yielded, completed, results,
                    ret, stdout, file, stderr, samplerVars >>

\* A worker's call of generate_point_for_country returns.
WorkerFinish(i) ==
    /\ pc = "pool"
    /\ i \in Running
    /\ \E r \in generate_point_for_country(tasks[i]) :
           produced' = [produced EXCEPT ![i] = r]
    /\ completed' = Append(completed, i)
    /\ UNCHANGED << all_countries, dataset, args, show_links, output, pc, locations, valid_locations,
                    invalid_locations, worldLoaded, tasks, started, yielded, results,
                    ret, stdout, file, stderr, samplerVars >>

\* The task indexes pool.imap's iterator can yield next: the result of task
\* n+1 once n results have been yielded.
\* Variant: results in completion order, as pool.imap_unordered gives them.
YieldAnyFinishedAs(n, prod, done) ==
    {i \in DOMAIN prod : prod[i] # Pending /\ i \notin done}
YieldIndex(n, prod, done) ==
    {i \in DOMAIN prod : i = n + 1 /\ prod[i] # Pending}

\* list(tqdm(pool.imap(...))) takes the next result.
Collect ==
    /\ pc = "pool"
    /\ \E i \in YieldIndex(Len(results), produced, yielded) :
           /\ results' = Append(results, produced[i])
           /\ yielded' = yielded \cup {i}
    /\ UNCHANGED << all_countries, dataset, args, show_links, output, pc, locations, valid_locations,
                    invalid_locations, worldLoaded, tasks, started, produced,
                    completed, ret, stdout, file, stderr, samplerVars >>

NotNone(r) == r # None
Field(seq, f) == [i \in 1..Len(seq) |-> seq[i][f]]
Range(seq) == {seq[i] : i \in 1..Len(seq)}

\* Variant: the list is cut at the first failed task.
RECURSIVE TakeUntilNoneAs(_)
TakeUntilNoneAs(res) ==
    IF res = << >> \/ Head(res) = None THEN << >>
    ELSE << Head(res) >> \o TakeUntilNoneAs(Tail(res))
\* Line 97: results = [r for r in results if r is not None]
FilterResults(res) == SelectSeq(res, NotNone)

\* Lines 102-104: set(generated_countries), the third value returned.
\* Variant: the validated names are returned instead.
ReturnedValidAs(kept, valid) == valid
ReturnedValid(kept, valid) == Range(Field(kept, "country"))

\* Lines 97-104, once the iterator is exhausted.
Finish ==
    /\ pc = "pool"
    /\ Len(results) = Len(tasks)
    /\ LET kept == FilterResults(results)
       IN ret' = IF kept = << >>
                 THEN Return(<< >>, << >>, {}, invalid_locations)
                 ELSE Return(Field(kept, "coords"), Field(kept, "link"),
                             ReturnedValid(kept, valid_locations), invalid_locations)
    /\ pc' = "returned"
    /\ UNCHANGED << all_countries, dataset, args, show_links, output, locations, valid_locations,
                    invalid_locations, worldLoaded, tasks, started, produced, yielded, completed,
                    results, stdout, file, stderr, samplerVars >>

\* ------------------------------------------------------------------- main
\* save_coordinates_to_file: open() can fail, json.dump can fail after the
\* file was truncated; both raise IOError, which is reported.
IoOutcomes == {"ok", "open_fails", "dump_fails"}

save_coordinates_to_file(coordinates, io) ==
    IF io = "ok" THEN [state |-> "written", data |-> coordinates]
    ELSE IF io = "dump_fails" THEN [state |-> "partial", data |-> << >>]
    ELSE NoFile

\* The truth value of args.output: None and '' are false.
\* Variant: the file is saved whatever args.output is.
OutputGivenAlwaysAs(filename) == TRUE
OutputGiven(filename) == filename # OutputNone /\ filename # ""

\* Lines 175-193.  args.show_links and args.output are read nowhere else:
\* the model draws them here.
MainReport ==
    /\ pc = "returned"
    /\ pc' = "done"
    /\ show_links' \in BOOLEAN
    /\ output' \in Outputs
    /\ IF ret.coordinates # << >>
       THEN \E io \in IoOutcomes :
              /\ stdout' = [printed |-> TRUE, data |-> ret.coordinates]
              /\ file' = IF OutputGiven(output')
                         THEN save_coordinates_to_file(ret.coordinates, io)
                         ELSE file
              /\ stderr' = [links_printed |-> show_links',
                            links |-> IF show_links' THEN ret.osm_links ELSE << >>,
                            valid_printed |-> TRUE,
                            valid |-> ret.valid_locations,
                            invalid_printed |-> ret.invalid_locations # {},
                            invalid |-> ret.invalid_locations,
                            save_error |-> OutputGiven(output') /\ io # "ok",
                            no_coordinates |-> FALSE]
       ELSE /\ stderr' = [stderr EXCEPT !.no_coordinates = TRUE]
            /\ UNCHANGED << stdout, file >>
    /\ UNCHANGED << all_countries, dataset, args, locations, valid_locations,
                    invalid_locations, worldLoaded, tasks, started, produced, yielded,
                    completed, results, ret, samplerVars >>

Next ==
    \/ ChooseLocations
    \/ Validate
    \/ LoadAndSubmit
    \/ WorkerTake
    \/ \E i \in DOMAIN tasks : WorkerFinish(i)
    \/ Collect
    \/ Finish
    \/ MainReport

Spec == Init /\ [][Next]_vars

\* ---------------------------------------- get_random_point_in_polygon
PipeIdle ==
    /\ all_countries = {}
    /\ dataset = [ok |-> FALSE, rows |-> << >>]
    /\ args = [input |-> {}, num_points |-> 0, lucky |-> FALSE]
    /\ show_links = FALSE
    /\ output = OutputNone
    /\ pc = "idle"
    /\ locations = {}
    /\ valid_locations = {}
    /\ invalid_locations = {}
    /\ worldLoaded = FALSE
    /\ tasks = << >>
    /\ started = 0
    /\ produced = << >>
    /\ yielded = {}
    /\ completed = << >>
    /\ results = << >>
    /\ ret = NoReturn
    /\ stdout = NoStdout
    /\ file = NoFile
    /\ stderr = NoStderr

\* The call get_random_point_in_polygon(sGeom); sPoly is the geometry of the
\* call now running (the chosen part, after the recursive call).
SamplerInit ==
    /\ PipeIdle
    /\ sGeom \in Geometries
    /\ sPoly = sGeom
    /\ sPc = "call"
    /\ sChosen = 0
    /\ sPnt = << >>

\* Lines 36-39: pick a part by area and recurse into it.
SChoosePart ==
    /\ sPc = "call"
    /\ sPoly.type = "MultiPolygon"
    /\ LET areas == Areas(sPoly)
       IN IF ChoicesRaises(areas)
          THEN /\ sPc' = "raised"
               /\ UNCHANGED << sPoly, sChosen >>
          ELSE \E x \in 0..(Total(areas) - 1) :
                 /\ sChosen' = ChoicesIndex(areas, x)
                 /\ sPoly' = sPoly.geoms[sChosen']
                 /\ sPc' = "call"
    /\ UNCHANGED << sGeom, sPnt, pipeVars >>

\* Line 41: a Polygon enters the rejection loop.
SEnterLoop ==
    /\ sPc = "call"
    /\ sPoly.type = "Polygon"
    /\ sPc' = "loop"
    /\ UNCHANGED << sGeom, sPoly, sChosen, sPnt, pipeVars >>

\* Lines 46-47.
SUnsupported ==
    /\ sPc = "call"
    /\ sPoly.type \notin {"MultiPolygon", "Polygon"}
    /\ sPc' = "raised"
    /\ UNCHANGED << sGeom, sPoly, sChosen, sPnt, pipeVars >>

\* Lines 43-45: a candidate that passes the test is returned.
SAccept ==
    /\ sPc = "loop"
    /\ \E p \in Candidates(sPoly) :
           /\ LoopExit(sPoly, p)
           /\ sPnt' = p
    /\ sPc' = "returned"
    /\ UNCHANGED << sGeom, sPoly, sChosen, pipeVars >>

\* Lines 43-44: a candidate that fails the test is dropped, the loop goes on.
SReject ==
    /\ sPc = "loop"
    /\ \E p \in Candidates(sPoly) :
           /\ ~LoopExit(sPoly, p)
           /\ sPnt' = p
    /\ sPc' = "loop"
    /\ UNCHANGED << sGeom, sPoly, sChosen, pipeVars >>

SamplerNext ==
    \/ SChoosePart
    \/ SEnterLoop
    \/ SUnsupported
    \/ SAccept
    \/ SReject

\* The call keeps running, and the random draws are fair: a draw that is
\* possible again and again is made.
SamplerSpec ==
    SamplerInit /\ [][SamplerNext]_vars /\ WF_vars(SamplerNext) /\ SF_vars(SAccept)

\* ------------------------------------------------------------------ claims
AfterCall == pc \in {"returned", "done"}

\* The point is in the polygon or on its boundary.
Covers(poly, p) ==
    /\ p \in Candidates(poly)
    /\ \A i \in 1..Len(poly.ring) :
           Cross(poly.ring[i], poly.ring[IF i = Len(poly.ring) THEN 1 ELSE i + 1], p) >= 0

GeomCovers(geometry, p) ==
    IF geometry.type = "Polygon" THEN Covers(geometry, p)
    ELSE IF geometry.type = "MultiPolygon"
    THEN \E i \in 1..Len(geometry.geoms) : Covers(geometry.geoms[i], p)
    ELSE FALSE

DatasetNames == {dataset.rows[i].NAME : i \in 1..Len(dataset.rows)}

\* An emitted [lat, lon] lies in (or on the boundary of) a dataset geometry
\* of the named country.
EmittedInCountry(r) ==
    \E i \in 1..Len(dataset.rows) :
        /\ dataset.rows[i].NAME = r.country
        /\ GeomCovers(dataset.rows[i].geometry, << r.coords[2], r.coords[1] >>)

\* C1: every emitted, rounded [lat, lon] lies inside the geometry of the
\* country it is attributed to, and that country is a requested name of the
\* allow-list.  (The boundary is counted as inside here.)
C1_EmittedInsideCountry ==
    AfterCall =>
        \A j \in 1..Len(results) :
            results[j] # None =>
                /\ EmittedInCountry(results[j])
                /\ results[j].country \in locations \cap all_countries

\* C2: filter_and_validate_countries splits the input names into those in
\* the allow-list and those not in it: disjoint, covering the input, nothing
\* from outside the input.
C2_ValidInvalidPartition ==
    pc \in {"load", "pool", "returned", "done", "exited"} =>
        /\ valid_locations \cap invalid_locations = {}
        /\ valid_locations \cup invalid_locations = locations
        /\ valid_locations \subseteq all_countries
        /\ invalid_locations \cap all_countries = {}

C2_Witness ==
    /\ pc = "load"
    /\ valid_locations # {}
    /\ invalid_locations # {}

\* The draws of random.choices that pick part i.
DrawsFor(geometry, i) ==
    {x \in 0..(Total(Areas(geometry)) - 1) : ChoicesIndex(Areas(geometry), x) = i}

\* C3: for a MultiPolygon one part is selected with weight equal to its area
\* (so never a part of area zero, and every part of positive area can be),
\* sampling happens only within that part and the returned point is
\* contained in it.
C3_AreaWeightedPart ==
    (sGeom.type = "MultiPolygon" /\ sPc # "raised") =>
        /\ \A i \in 1..Len(sGeom.geoms) :
               Cardinality(DrawsFor(sGeom, i)) = Area(sGeom.geoms[i])
        /\ sChosen # 0 =>
               /\ sChosen \in 1..Len(sGeom.geoms)
               /\ Area(sGeom.geoms[sChosen]) > 0
               /\ sPoly = sGeom.geoms[sChosen]
               /\ sPnt # << >> => sPnt \in Candidates(sGeom.geoms[sChosen])
               /\ sPc = "returned" => Contains(sGeom.geoms[sChosen], sPnt)

C3_Witness ==
    /\ sGeom = Archipelago
    /\ sPc = "returned"
    /\ sChosen = 3

InBounds(poly, p) ==
    LET b == Bounds(poly)
    IN b.minx <= p[1] /\ p[1] <= b.maxx /\ b.miny <= p[2] /\ p[2] <= b.maxy

\* What C4 says of the candidates: each lies in the bounding box, a rejected
\* one is not contained, the returned one is contained.
C4_LoopSafety ==
    /\ (sPc \in {"loop", "returned"} /\ sPnt # << >>) => InBounds(sPoly, sPnt)
    /\ (sPc = "loop" /\ sPnt # << >>) => ~Contains(sPoly, sPnt)
    /\ sPc = "returned" => Contains(sPoly, sPnt)

\* The loop stops at the first candidate the polygon contains.
C4_StopsAtFirst ==
    (sPc = "loop" /\ sPnt' # sPnt /\ Contains(sPoly, sPnt')) => sPc' = "returned"

\* C4 as stated: for every Polygon the rejection loop eventually returns
\* under fair draws, with the candidates as above.
C4_EveryPolygonReturns ==
    /\ []C4_LoopSafety
    /\ [][C4_StopsAtFirst]_vars
    /\ (sPc = "loop") ~> (sPc = "returned")

\* C4 amended: the same for every Polygon of positive area.
C4_PositiveAreaReturns ==
    /\ []C4_LoopSafety
    /\ [][C4_StopsAtFirst]_vars
    /\ (sPc = "loop" /\ Area(sPoly) > 0) ~> (sPc = "returned")

C4_Witness ==
    /\ sGeom = Pent
    /\ sPc = "returned"
    /\ Contains(sPoly, sPnt)

\* C5: in lucky mode the target set is exactly one name of the allow-list,
\* the returned invalid set is empty and every point is attributed to that
\* one country.
C5_LuckyOneName ==
    (args.lucky /\ pc # "start") =>
        /\ Cardinality(locations) = 1
        /\ locations \subseteq all_countries
        /\ ret.returned =>
               /\ ret.invalid_locations = {}
               /\ \A j \in 1..Len(results) :
                      results[j] # None => results[j].country \in locations

Generated == ret.returned /\ ret.coordinates # << >>

\* An output filename was given: not None, not the empty string.
FilenameGiven == output \notin {OutputNone, ""}

\* What C6 says of the JSON on standard output and of the links.
C6_StdoutAndLinks ==
    /\ stdout.printed <=> Generated
    /\ stdout.printed => stdout.data = ret.coordinates
    /\ stderr.links_printed <=> (Generated /\ show_links)
    /\ stderr.links_printed => stderr.links = ret.osm_links

\* C6 as stated: JSON is printed iff a coordinate was generated; the file is
\* written iff a coordinate was generated and an output filename was given,
\* and holds the printed list; the links are printed iff a coordinate was
\* generated and show_links is set.
C6_FileWrittenIffGiven ==
    pc = "done" =>
        /\ C6_StdoutAndLinks
        /\ file.state = "written" <=> (Generated /\ FilenameGiven)
        /\ file.state = "written" => file.data = stdout.data

\* C6 amended: the file is touched only if a coordinate was generated and an
\* output filename was given; then it either holds the printed list or the
\* write raised IOError, which is reported and leaves the file missing or
\* incomplete.  Standard output and the links are as stated.
C6_FileWrittenUnlessIOError ==
    pc = "done" =>
        /\ C6_StdoutAndLinks
        /\ file.state # "absent" => (Generated /\ FilenameGiven)
        /\ (Generated /\ FilenameGiven) =>
               (file.state = "written" <=> ~stderr.save_error)
        /\ stderr.save_error => (Generated /\ FilenameGiven)
        /\ file.state = "written" => file.data = stdout.data

C6_Witness ==
    /\ pc = "done"
    /\ file.state = "written"
    /\ file.data # << >>
    /\ stderr.links_printed

\* C7: the list built from pool.imap holds the result of the i-th submitted
\* task at position i, whatever the order in which the workers finish, so
\* coordinate, link and country at one position come from one task, as a
\* sequential map over the task list gives.
C7_ResultsInTaskOrder ==
    /\ \A j \in 1..Len(results) :
           /\ j \in DOMAIN produced
           /\ results[j] = produced[j]
           /\ results[j] # None =>
                  /\ results[j].country = tasks[j].NAME
                  /\ results[j].link = OsmLink(results[j].coords[1], results[j].coords[2])
    /\ (AfterCall /\ worldLoaded /\ tasks # << >>) =>
           /\ Len(results) = Len(tasks)
           /\ Len(ret.coordinates) = Len(ret.osm_links)
           /\ \A j \in 1..Len(ret.coordinates) :
                  ret.osm_links[j] = OsmLink(ret.coordinates[j][1], ret.coordinates[j][2])

\* Both tasks succeeded, the second finished first, and they differ.
C7_Witness ==
    /\ pc = "returned"
    /\ completed = << 2, 1 >>
    /\ Len(results) = 2
    /\ results[1] # None
    /\ results[2] # None
    /\ results[1].country # results[2].country

\* The tasks whose call raises.
FailedTasks == {i \in DOMAIN tasks : SamplerRaises(tasks[i].geometry)}

\* The coordinates of the tasks that did not fail, in task order.
RECURSIVE SurvivingCoords(_)
SurvivingCoords(i) ==
    IF i = 0 THEN << >>
    ELSE IF produced[i] = None THEN SurvivingCoords(i - 1)
    ELSE Append(SurvivingCoords(i - 1), produced[i].coords)

\* C8: a failed task is dropped, not retried or replaced, and leaves the
\* others alone: the coordinate and link lists have equal length, num_points
\* minus the number of failed tasks; when every task fails the call returns
\* ([], [], empty set, invalid names).
C8_FailedTasksDropped ==
    /\ \A i \in DOMAIN produced : (produced[i] = None) => i \in FailedTasks
    /\ \A i \in FailedTasks : produced[i] \in {Pending, None}
    /\ Len(completed) = Cardinality({i \in DOMAIN produced : produced[i] # Pending})
    /\ (AfterCall /\ worldLoaded /\ tasks # << >>) =>
           /\ Len(ret.coordinates) = Len(ret.osm_links)
           /\ Len(ret.coordinates) = args.num_points - Cardinality(FailedTasks)
           /\ ret.coordinates = SurvivingCoords(Len(tasks))
           /\ ret.invalid_locations = locations \ all_countries
           /\ FailedTasks = DOMAIN tasks =>
                  ret = Return(<< >>, << >>, {}, locations \ all_countries)

\* One task failed, one did not.
C8_Witness ==
    /\ pc = "returned"
    /\ Len(tasks) = 2
    /\ Cardinality(FailedTasks) = 1
    /\ Len(ret.coordinates) = 1

\* C9: when at least one coordinate is returned, the valid set returned (and
\* printed as 'Valid countries') is exactly the set of countries of the
\* generated points, a subset of the input names that are in the allow-list
\* and in the dataset, and disjoint from the invalid set.
C9_ValidIsGenerated ==
    (AfterCall /\ Generated) =>
        /\ ret.valid_locations =
               {results[j].country : j \in {k \in 1..Len(results) : results[k] # None}}
        /\ ret.valid_locations \subseteq (locations \cap all_countries) \cap DatasetNames
        /\ ret.valid_locations \cap ret.invalid_locations = {}
        /\ pc = "done" => (stderr.valid_printed /\ stderr.valid = ret.valid_locations)

\* Points were generated for fewer countries than were valid.
C9_Witness ==
    /\ pc = "done"
    /\ Generated
    /\ ret.valid_locations # valid_locations
    /\ stderr.valid_printed

\* C10: with lucky mode off and no input name in the allow-list the call
\* returns ([], [], empty set, all input names) without loading the dataset
\* or starting a task, and main writes neither JSON nor a file.
C10_NoValidNoWork ==
    (~args.lucky /\ args.input \cap all_countries = {} /\ pc # "start") =>
        /\ pc \in {"validate", "returned", "done"}
        /\ ~worldLoaded
        /\ tasks = << >> /\ started = 0 /\ completed = << >>
        /\ AfterCall => ret = Return(<< >>, << >>, {}, args.input)
        /\ ~stdout.printed
        /\ file = NoFile

C10_Witness ==
    /\ pc = "done"
    /\ ~args.lucky
    /\ args.input # {}
    /\ all_countries # {}
    /\ args.input \cap all_countries = {}
    /\ output = "out.json"
    /\ stderr.no_coordinates

====
